---- MODULE Spec2Model ----
(***************************************************************************)
(* ByteHunter (main.py): a concurrent, case-insensitive search of a file  *)
(* tree.  main() collects the files under the configured roots, filters   *)
(* them in a thread pool (is_file_searchable), scans the accepted ones in *)
(* a second thread pool (search_file, which stores into results_dict      *)
(* under a lock) and writes results_dict to a CSV file.                    *)
(*                                                                         *)
(* Text is a sequence of one-character strings; a path is the sequence of *)
(* its components (pathlib's parts), the path "." being the empty one.    *)
(***************************************************************************)
EXTENDS Integers, Sequences, FiniteSets, TLC

VARIABLES
    SEARCH_TERM,            \* main.py:11
    DIRECTORIES_TO_SEARCH,  \* main.py:13, a sequence of paths
    EXCLUDE_DIRECTORIES,    \* main.py:15, a set of paths
    INCLUDE_FILE_TYPES,     \* main.py:18, a sequence of suffixes
    EXCLUDE_FILE_TYPES,     \* main.py:20, a sequence of suffixes
    NUM_THREADS,            \* main.py:23
    disk,                   \* the file system the run sees
    pc,                     \* main()'s position
    roots_done,             \* roots the loop of main.py:124 has walked
    all_files,              \* main.py:123
    futures,                \* the filter tasks of main.py:131
    finished,               \* as_completed: futures found finished on entry, not yet yielded
    pending,                \* as_completed: futures not finished on entry, not yet yielded
    waiter,                 \* as_completed: waiter.finished_futures, in finishing order
    files_to_search,        \* main.py:129
    tasks,                  \* the scan tasks of main.py:142
    lock,                   \* main.py:27: the set of scan tasks holding it
    results_dict,           \* main.py:26: rows in insertion order
    csv                     \* the rows written by write_to_csv

config == <<SEARCH_TERM, DIRECTORIES_TO_SEARCH, EXCLUDE_DIRECTORIES,
            INCLUDE_FILE_TYPES, EXCLUDE_FILE_TYPES, NUM_THREADS, disk>>

vars == <<SEARCH_TERM, DIRECTORIES_TO_SEARCH, EXCLUDE_DIRECTORIES,
          INCLUDE_FILE_TYPES, EXCLUDE_FILE_TYPES, NUM_THREADS, disk,
          pc, roots_done, all_files, futures, finished, pending, waiter,
          files_to_search, tasks, lock, results_dict, csv>>

\* The state of the as_completed generator of main.py:134.
generator == <<finished, pending, waiter>>

(***************************************************************************)
(* Bounds of the model.                                                    *)
(***************************************************************************)
\* The size of the larger worker pool explored (NUM_THREADS is 1 or MaxThreads).
MaxThreads == 2

\* The largest number of files that fail in one run.
MaxFaulty == 1

(***************************************************************************)
(* Text helpers.                                                           *)
(***************************************************************************)
\* str.lower() on the letters the model uses: re.IGNORECASE compares the
\* case-folded characters.
Lower(c) ==
    CASE c = "A" -> "a"
      [] c = "B" -> "b"
      [] c = "E" -> "e"
      [] c = "H" -> "h"
      [] c = "R" -> "r"
      [] c = "T" -> "t"
      [] c = "V" -> "v"
      [] c = "W" -> "w"
      [] OTHER -> c

\* Membership in a list (Python's `x in list`).
Contains(list, x) == \E i \in 1..Len(list) : list[i] = x

\* Concatenation of a sequence of sequences.
RECURSIVE Flatten(_)
Flatten(ss) == IF ss = <<>> THEN <<>> ELSE Head(ss) \o Flatten(Tail(ss))

(***************************************************************************)
(* pathlib.                                                                *)
(***************************************************************************)
\* Mutant of is_relative_to: a test on the paths' text (str.startswith).
is_relative_to_text(path, other) ==
    LET p == IF path = <<>> THEN <<".">> ELSE Flatten([i \in 1..Len(path) |-> <<"/">> \o path[i]])
        o == IF other = <<>> THEN <<".">> ELSE Flatten([i \in 1..Len(other) |-> <<"/">> \o other[i]])
    IN Len(o) <= Len(p) /\ SubSeq(p, 1, Len(o)) = o

\* Path.is_relative_to: other's components are a prefix of path's.
is_relative_to(path, other) ==
    /\ Len(other) <= Len(path)
    /\ \A i \in 1..Len(other) : path[i] = other[i]

\* The index of the last "." of a name, 0 when there is none (str.rfind + 1).
rfind_dot(name) ==
    LET dots == {i \in 1..Len(name) : name[i] = "."}
    IN IF dots = {} THEN 0 ELSE CHOOSE i \in dots : \A j \in dots : j <= i

\* Path.suffix: the last component's text from its last dot, when that dot
\* is neither the first nor the last character; otherwise empty.
suffix(path) ==
    IF path = <<>> THEN <<>>
    ELSE LET name == path[Len(path)]
             i == rfind_dot(name)
         IN IF 1 < i /\ i < Len(name) THEN SubSeq(name, i, Len(name)) ELSE <<>>

\* str(Path): the components joined by "/", "." for the empty path.
RECURSIVE join_parts(_)
join_parts(path) ==
    IF Len(path) = 1 THEN path[1]
    ELSE path[1] \o <<"/">> \o join_parts(Tail(path))

str(path) == IF path = <<>> THEN <<".">> ELSE join_parts(path)

(***************************************************************************)
(* collect_files (main.py:103-116).                                        *)
(***************************************************************************)
\* os.walk(top, topdown=True) with the pruning of main.py:114: a directory
\* that cannot be listed yields nothing (os.walk's onerror is None, the
\* error is dropped); the files of a directory come before its
\* subdirectories; a subdirectory is dropped when its path is a member of
\* EXCLUDE_DIRECTORIES.
RECURSIVE walk(_, _, _)
walk(fs, top, excl) ==
    IF top \notin DOMAIN fs.dirs THEN <<>>
    ELSE LET entry == fs.dirs[top]
             kept == SelectSeq(entry.dirs, LAMBDA d : Append(top, d) \notin excl)
         IN [i \in 1..Len(entry.files) |-> Append(top, entry.files[i])]
            \o Flatten([i \in 1..Len(kept) |-> walk(fs, Append(top, kept[i]), excl)])

collect_files(root_dir) == walk(disk, root_dir, EXCLUDE_DIRECTORIES)

(***************************************************************************)
(* is_file_searchable (main.py:30-56).                                     *)
(***************************************************************************)
\* Mutant of sniff: only the UnicodeDecodeError is handled, another error
\* of the read counts as success.
sniff_decode_only(file_path) ==
    IF disk.files[file_path].sniff = "decode" THEN "decode" ELSE "ok"

\* The outcome of main.py:49-50, opening the file and decoding its first
\* characters: "ok", "decode" (UnicodeDecodeError) or "io" (any other error).
sniff(file_path) == disk.files[file_path].sniff

\* Mutant of is_file_searchable: the exclude list is consulted only when
\* there is no include list.
is_file_searchable_elif(file_path) ==
    IF \E excl_dir \in EXCLUDE_DIRECTORIES : is_relative_to(file_path, excl_dir)
    THEN [result |-> FALSE, opened |-> FALSE]
    ELSE IF Len(INCLUDE_FILE_TYPES) > 0
    THEN IF Contains(INCLUDE_FILE_TYPES, suffix(file_path))
         THEN [result |-> sniff(file_path) = "ok", opened |-> TRUE]
         ELSE [result |-> FALSE, opened |-> FALSE]
    ELSE IF Contains(EXCLUDE_FILE_TYPES, suffix(file_path))
    THEN [result |-> FALSE, opened |-> FALSE]
    ELSE [result |-> sniff(file_path) = "ok", opened |-> TRUE]

\* result: the value returned; opened: whether main.py:49 was reached.
is_file_searchable(file_path) ==
    IF \E excl_dir \in EXCLUDE_DIRECTORIES : is_relative_to(file_path, excl_dir)
    THEN [result |-> FALSE, opened |-> FALSE]
    ELSE IF Len(INCLUDE_FILE_TYPES) > 0
            /\ ~Contains(INCLUDE_FILE_TYPES, suffix(file_path))
    THEN [result |-> FALSE, opened |-> FALSE]
    ELSE IF Contains(EXCLUDE_FILE_TYPES, suffix(file_path))
    THEN [result |-> FALSE, opened |-> FALSE]
    ELSE [result |-> sniff(file_path) = "ok", opened |-> TRUE]

(***************************************************************************)
(* search_file (main.py:59-83).                                            *)
(***************************************************************************)
\* Whether the pattern term matches line at the 0-based offset pos, letter
\* case ignored.  SEARCH_TERM is handed to re.finditer as it is, not
\* escaped: a "." of the term is the regular expression that matches any
\* character of the line; every other character of the model's terms
\* matches itself.
match_at(term, line, pos) ==
    /\ pos + Len(term) <= Len(line)
    /\ \A k \in 1..Len(term) :
          term[k] = "." \/ Lower(line[pos + k]) = Lower(term[k])

\* re.finditer(term, line, re.IGNORECASE) for a term of plain characters
\* and dots: the starts of the matches found left to right, the search
\* resuming at the end of each match (one character further after an
\* empty match).
RECURSIVE finditer(_, _, _)
finditer(term, line, pos) ==
    IF pos + Len(term) > Len(line) THEN <<>>
    ELSE IF match_at(term, line, pos)
    THEN <<pos>> \o finditer(term, line, pos + (IF Len(term) = 0 THEN 1 ELSE Len(term)))
    ELSE finditer(term, line, pos + 1)

\* Mutant of line_records: the end is the offset of the last character.
line_records_inclusive(term, line, line_number) ==
    LET occurrences == finditer(term, line, 0)
    IN [i \in 1..Len(occurrences) |->
          <<line_number, occurrences[i], occurrences[i] + Len(term) - 1>>]

\* main.py:71-77 for one line: a record (line_number, pos, pos + len(term))
\* per occurrence.
line_records(term, line, line_number) ==
    LET occurrences == finditer(term, line, 0)
    IN [i \in 1..Len(occurrences) |->
          <<line_number, occurrences[i], occurrences[i] + Len(term)>>]

\* A loop that numbers the lines from 0.
RECURSIVE scan_lines_zero(_, _, _)
scan_lines_zero(term, lines, n) ==
    IF n = 0 THEN <<>>
    ELSE scan_lines_zero(term, lines, n - 1) \o line_records(term, lines[n], n - 1)

\* The loop of main.py:69-77 over the first n lines.
RECURSIVE scan_lines(_, _, _)
scan_lines(term, lines, n) ==
    IF n = 0 THEN <<>>
    ELSE scan_lines(term, lines, n - 1) \o line_records(term, lines[n], n)

\* The lines the loop of main.py:70 gets before the file ends or an
\* exception ends the loop: all of them, or the first scanOk when opening
\* or reading fails (scanOk = 0: nothing was read).
lines_read(file_path) ==
    LET f == disk.files[file_path]
    IN IF f.scanErr = "none" THEN Len(f.lines) ELSE f.scanOk

\* local_results at main.py:81: what was appended before the loop ended,
\* normally or by the exception caught at main.py:78.
local_results_of(file_path) ==
    scan_lines(SEARCH_TERM, disk.files[file_path].lines, lines_read(file_path))

\* Mutant of dict_set: the store is a list of rows, every store appends.
dict_set_append(d, key, value) == Append(d, [key |-> key, value |-> value])

\* A store that extends the list of an existing key with the new list.
dict_set_extend(d, key, value) ==
    IF \E i \in 1..Len(d) : d[i].key = key
    THEN [i \in 1..Len(d) |->
            IF d[i].key = key THEN [key |-> key, value |-> d[i].value \o value] ELSE d[i]]
    ELSE Append(d, [key |-> key, value |-> value])

\* results_dict[key] = value on an insertion-ordered dict: an existing key
\* keeps its place and takes the new value, a new key goes last.
dict_set(d, key, value) ==
    IF \E i \in 1..Len(d) : d[i].key = key
    THEN [i \in 1..Len(d) |-> IF d[i].key = key THEN [key |-> key, value |-> value] ELSE d[i]]
    ELSE Append(d, [key |-> key, value |-> value])

\* Mutant of record: the test of main.py:82 is missing.
record_always(d, file_path, local_results) == dict_set(d, str(file_path), local_results)

\* main.py:82-83.
record(d, file_path, local_results) ==
    IF local_results # <<>> THEN dict_set(d, str(file_path), local_results) ELSE d

(***************************************************************************)
(* write_to_csv (main.py:86-100).                                          *)
(***************************************************************************)
\* Rows written from the last entry of the dict to the first.
csv_rows_reversed(d) ==
    [i \in 1..Len(d) |->
        [path |-> d[Len(d) + 1 - i].key, count |-> Len(d[Len(d) + 1 - i].value),
         positions |-> d[Len(d) + 1 - i].value]]

\* One row per entry of results_dict, in the dict's order.
csv_rows(d) ==
    [i \in 1..Len(d) |->
        [path |-> d[i].key, count |-> Len(d[i].value), positions |-> d[i].value]]

(***************************************************************************)
(* The runs explored: file trees, configurations and per-file failures.    *)
(***************************************************************************)
\* File and directory names, and suffixes, as text.
a_txt == <<"a", ".", "t", "x", "t">>
x_json == <<"x", ".", "j", "s", "o", "n">>
y_txt == <<"y", ".", "t", "x", "t">>
z_md == <<"z", ".", "m", "d">>
foo == <<"f", "o", "o">>
foobar == <<"f", "o", "o", "b", "a", "r">>
sub == <<"s", "u", "b">>
missing == <<"m", "i", "s", "s", "i", "n", "g">>
dot_txt == <<".", "t", "x", "t">>
dot_json == <<".", "j", "s", "o", "n">>

\* A tree with a directory foo, its subdirectory sub, and a directory
\* foobar whose name starts with "foo"; four files, with and without
\* matches of "aa".
TreeDirs ==
    (<<>> :> [dirs |-> <<foo, foobar>>, files |-> <<a_txt>>])
    @@ (<<foo>> :> [dirs |-> <<sub>>, files |-> <<x_json>>])
    @@ (<<foo, sub>> :> [dirs |-> <<>>, files |-> <<y_txt>>])
    @@ (<<foobar>> :> [dirs |-> <<>>, files |-> <<z_md>>])

TreeLines ==
    (<<a_txt>> :> <<<<"a", "a", "a">>, <<"b">>, <<"A", "a">>>>)
    @@ (<<foo, x_json>> :> <<<<"b", " ", "a">>, <<"a", "A", "a", "A">>>>)
    @@ (<<foo, sub, y_txt>> :> <<<<"b", "a", "a">>>>)
    @@ (<<foobar, z_md>> :> <<<<"b">>>>)

\* The tree of the end-to-end scenario: one directory holding a.txt.
SingleDirs == <<>> :> [dirs |-> <<>>, files |-> <<a_txt>>]

SingleLines ==
    <<a_txt>> :> <<<<"f", "o", "o">>,
                   <<"w", "h", "a", "t", "e", "v", "e", "r", " ", "b", "a", "r">>,
                   <<"W", "H", "A", "T", "E", "V", "E", "R">>>>

\* A file with an empty line, read with a term that holds a ".".
PatternLines ==
    <<a_txt>> :> <<<<"a", "b">>,
                   <<>>,
                   <<"b", "A", "b", "a", "c">>>>

\* Each scenario: a tree, the term searched, and the choices of roots and
\* of excluded directories.  A root may be missing, roots may overlap.
Scenarios ==
    { [dirs |-> TreeDirs, lines |-> TreeLines, term |-> <<"a", "a">>,
       roots |-> { << <<>> >>, << <<foo>> >>, << <<foo, sub>> >>,
                   << <<>>, <<foo, sub>> >>, << <<missing>>, <<foobar>> >> },
       excludes |-> { {}, {<<foo>>} }],
      [dirs |-> SingleDirs, lines |-> SingleLines, term |-> <<"w", "h", "a", "t", "e", "v", "e", "r">>,
       roots |-> { << <<>> >> },
       excludes |-> { {} }],
      [dirs |-> SingleDirs, lines |-> PatternLines, term |-> <<"a", ".">>,
       roots |-> { << <<>> >> },
       excludes |-> { {} }] }

\* The choices of INCLUDE_FILE_TYPES and EXCLUDE_FILE_TYPES: no rule, an
\* include list, an exclude list, and an extension in both lists.
FileTypeChoices ==
    { [include |-> <<>>, exclude |-> <<>>],
      [include |-> <<dot_txt>>, exclude |-> <<>>],
      [include |-> <<>>, exclude |-> <<dot_json>>],
      [include |-> <<dot_txt, dot_json>>, exclude |-> <<dot_json>>] }

\* What opening and reading a file does in this run.  sniff is the outcome
\* of the filter's read; scanErr is the exception the scan's read ends
\* with ("none": the file is read to its end), raised once scanOk lines
\* have been delivered.  The scan handles every exception alike
\* (main.py:78), so an I/O error is explored on open only and a decoding
\* error at every line.
Healthy == [sniff |-> "ok", scanErr |-> "none", scanOk |-> 0]

Behaviours(lines) ==
    {Healthy}
    \cup {[sniff |-> e, scanErr |-> e, scanOk |-> 0] : e \in {"decode", "io"}}
    \cup {[sniff |-> "ok", scanErr |-> "io", scanOk |-> 0]}
    \cup {[sniff |-> "ok", scanErr |-> "decode", scanOk |-> k] : k \in 0..Len(lines)}

BehaviourChoices(lines) ==
    {fa \in [DOMAIN lines -> UNION {Behaviours(lines[p]) : p \in DOMAIN lines}] :
        /\ \A p \in DOMAIN lines : fa[p] \in Behaviours(lines[p])
        /\ Cardinality({p \in DOMAIN lines : fa[p] # Healthy}) <= MaxFaulty}

MakeDisk(sc, fa) ==
    [dirs |-> sc.dirs,
     files |-> [p \in DOMAIN sc.lines |->
                  [lines |-> sc.lines[p], sniff |-> fa[p].sniff,
                   scanErr |-> fa[p].scanErr, scanOk |-> fa[p].scanOk]]]

(***************************************************************************)
(* The state machine of main() (main.py:119-145).                          *)
(***************************************************************************)
\* The runs explored: every scenario with every choice of roots, excluded
\* directories and pool size; the file type lists vary in the runs where
\* no file fails, the failures in the runs without file type lists and
\* with one configured root.
Init ==
    /\ \E sc \in Scenarios, ft \in FileTypeChoices :
         /\ SEARCH_TERM = sc.term
         /\ DIRECTORIES_TO_SEARCH \in sc.roots
         /\ EXCLUDE_DIRECTORIES \in sc.excludes
         /\ INCLUDE_FILE_TYPES = ft.include
         /\ EXCLUDE_FILE_TYPES = ft.exclude
         /\ \E fa \in BehaviourChoices(sc.lines) :
              /\ (ft.include = <<>> /\ ft.exclude = <<>> /\ Len(DIRECTORIES_TO_SEARCH) = 1)
                    \/ (\A p \in DOMAIN sc.lines : fa[p] = Healthy)
              /\ disk = MakeDisk(sc, fa)
    /\ NUM_THREADS \in {1, MaxThreads}
    /\ pc = "collect"
    /\ roots_done = 0
    /\ all_files = <<>>
    /\ futures = <<>>
    /\ finished = {}
    /\ pending = {}
    /\ waiter = <<>>
    /\ files_to_search = <<>>
    /\ tasks = <<>>
    /\ lock = {}
    /\ results_dict = <<>>
    /\ csv = <<>>

\* main.py:124-125, one root: its files are appended to all_files.
CollectRoot ==
    /\ pc = "collect"
    /\ roots_done < Len(DIRECTORIES_TO_SEARCH)
    /\ all_files' = all_files \o collect_files(DIRECTORIES_TO_SEARCH[roots_done + 1])
    /\ roots_done' = roots_done + 1
    /\ UNCHANGED <<config, generator, pc, futures, files_to_search, tasks, lock, results_dict, csv>>

\* main.py:130-132: one filter task per collected file, queued in order.
SubmitFilters ==
    /\ pc = "collect"
    /\ roots_done = Len(DIRECTORIES_TO_SEARCH)
    /\ futures' = [i \in 1..Len(all_files) |->
                     [path |-> all_files[i], state |-> "queued",
                      result |-> FALSE, opened |-> FALSE]]
    /\ pc' = "filter"
    /\ UNCHANGED <<config, generator, roots_done, all_files, files_to_search, tasks, lock, results_dict, csv>>

\* The tasks of a pool that a worker is running.
Running(pool) == {i \in 1..Len(pool) : pool[i].state \notin {"queued", "done"}}

\* ThreadPoolExecutor: a free worker takes the oldest queued task.
CanStart(pool, i) ==
    /\ i \in 1..Len(pool)
    /\ pool[i].state = "queued"
    /\ \A j \in 1..(i - 1) : pool[j].state # "queued"
    /\ Cardinality(Running(pool)) < NUM_THREADS

\* The end of `with ThreadPoolExecutor`: shutdown(wait=True) returns when
\* every task of the pool is done.
AllDone(pool) == \A i \in 1..Len(pool) : pool[i].state = "done"

\* A worker starts is_file_searchable on the next file.
FilterStart(i) ==
    /\ CanStart(futures, i)
    /\ futures' = [futures EXCEPT ![i].state = "running"]
    /\ UNCHANGED <<config, generator, pc, roots_done, all_files, files_to_search, tasks, lock, results_dict, csv>>

\* is_file_searchable returns in the worker: the future is finished with
\* the result, and when the waiter of as_completed is installed on it the
\* future is added to waiter.finished_futures. The worker is free again.
FilterDone(i) ==
    /\ i \in 1..Len(futures)
    /\ futures[i].state = "running"
    /\ LET r == is_file_searchable(futures[i].path)
       IN futures' = [futures EXCEPT ![i].state = "done",
                                     ![i].result = r.result,
                                     ![i].opened = r.opened]
    /\ waiter' = IF i \in pending THEN Append(waiter, i) ELSE waiter
    /\ UNCHANGED <<config, finished, pending, pc, roots_done, all_files, files_to_search, tasks, lock, results_dict, csv>>

\* main.py:134, the first step of the generator: as_completed splits the
\* futures into those already finished and those pending, and installs its
\* waiter on them.
AsCompletedEnter ==
    /\ pc = "filter"
    /\ finished' = {i \in 1..Len(futures) : futures[i].state = "done"}
    /\ pending' = {i \in 1..Len(futures) : futures[i].state # "done"}
    /\ pc' = "as_completed"
    /\ UNCHANGED <<config, waiter, roots_done, all_files, futures, files_to_search, tasks, lock, results_dict, csv>>

\* A loop body that appends the file whatever the result.
loop_body_keep_all(i) == files_to_search' = Append(files_to_search, futures[i].path)

\* main.py:135-137: the file of the yielded future is appended to
\* files_to_search when the result is true.
loop_body(i) ==
    files_to_search' = IF futures[i].result THEN Append(files_to_search, futures[i].path)
                       ELSE files_to_search

\* as_completed yields a future that was finished on entry, in the
\* iteration order of a set, and the loop body runs.
YieldFinished(i) ==
    /\ pc = "as_completed"
    /\ i \in finished
    /\ finished' = finished \ {i}
    /\ loop_body(i)
    /\ UNCHANGED <<config, pending, waiter, pc, roots_done, all_files, futures, tasks, lock, results_dict, csv>>

\* as_completed, the futures finished on entry all yielded, yields the
\* pending future that finished first, and the loop body runs.
YieldCompleted ==
    /\ pc = "as_completed"
    /\ finished = {}
    /\ waiter # <<>>
    /\ waiter' = Tail(waiter)
    /\ pending' = pending \ {Head(waiter)}
    /\ loop_body(Head(waiter))
    /\ UNCHANGED <<config, finished, pc, roots_done, all_files, futures, tasks, lock, results_dict, csv>>

\* executor.map issued without the loop of main.py:134-137 and the end of
\* the first `with ThreadPoolExecutor`.
SubmitScans_nowait ==
    /\ pc = "as_completed"
    /\ tasks' = [i \in 1..Len(files_to_search) |->
                   [path |-> files_to_search[i], state |-> "queued",
                    local_results |-> <<>>]]
    /\ pc' = "scan"
    /\ UNCHANGED <<config, generator, roots_done, all_files, futures, files_to_search, lock, results_dict, csv>>

\* main.py:134-142: the generator is exhausted and the first pool is joined
\* (every future is done), then executor.map queues one scan task per file
\* of files_to_search.
SubmitScans ==
    /\ pc = "as_completed"
    /\ finished = {}
    /\ pending = {}
    /\ AllDone(futures)
    /\ tasks' = [i \in 1..Len(files_to_search) |->
                   [path |-> files_to_search[i], state |-> "queued",
                    local_results |-> <<>>]]
    /\ pc' = "scan"
    /\ UNCHANGED <<config, generator, roots_done, all_files, futures, files_to_search, lock, results_dict, csv>>

\* main.py:66-79: a worker reads the file and collects local_results; an
\* exception ends the reading and is caught.
ScanRead(i) ==
    /\ CanStart(tasks, i)
    /\ tasks' = [tasks EXCEPT ![i].state = "read",
                              ![i].local_results = local_results_of(tasks[i].path)]
    /\ UNCHANGED <<config, generator, pc, roots_done, all_files, futures, files_to_search, lock, results_dict, csv>>

\* An acquire that is granted whoever holds the lock.
may_acquire_always(holders) == TRUE

\* threading.Lock.acquire: granted when no thread holds the lock.
may_acquire(holders) == holders = {}

\* main.py:81: the worker enters `with lock`.
ScanAcquire(i) ==
    /\ i \in 1..Len(tasks)
    /\ tasks[i].state = "read"
    /\ may_acquire(lock)
    /\ lock' = lock \cup {i}
    /\ tasks' = [tasks EXCEPT ![i].state = "locked"]
    /\ UNCHANGED <<config, generator, pc, roots_done, all_files, futures, files_to_search, results_dict, csv>>

\* A store that gives the lock back only after it has written an entry.
ScanStore_keeps_lock(i) ==
    /\ i \in 1..Len(tasks)
    /\ tasks[i].state = "locked"
    /\ results_dict' = record(results_dict, tasks[i].path, tasks[i].local_results)
    /\ lock' = IF tasks[i].local_results # <<>> THEN lock \ {i} ELSE lock
    /\ tasks' = [tasks EXCEPT ![i].state = "done"]
    /\ UNCHANGED <<config, generator, pc, roots_done, all_files, futures, files_to_search, csv>>

\* main.py:82-83 and the end of `with lock`: the store, then the release.
ScanStore(i) ==
    /\ i \in 1..Len(tasks)
    /\ tasks[i].state = "locked"
    /\ results_dict' = record(results_dict, tasks[i].path, tasks[i].local_results)
    /\ lock' = lock \ {i}
    /\ tasks' = [tasks EXCEPT ![i].state = "done"]
    /\ UNCHANGED <<config, generator, pc, roots_done, all_files, futures, files_to_search, csv>>

\* The scan pool left without waiting for its tasks.
JoinScans_nowait ==
    /\ pc = "scan"
    /\ pc' = "write"
    /\ UNCHANGED <<config, generator, roots_done, all_files, futures, files_to_search, tasks, lock, results_dict, csv>>

\* The end of `with ThreadPoolExecutor` at main.py:141-142: shutdown waits
\* for every scan task.
JoinScans ==
    /\ pc = "scan"
    /\ AllDone(tasks)
    /\ pc' = "write"
    /\ UNCHANGED <<config, generator, roots_done, all_files, futures, files_to_search, tasks, lock, results_dict, csv>>

\* main.py:144: write_to_csv opens the report and writes the rows.
WriteToCsv ==
    /\ pc = "write"
    /\ csv' = csv_rows(results_dict)
    /\ pc' = "done"
    /\ UNCHANGED <<config, generator, roots_done, all_files, futures, files_to_search, tasks, lock, results_dict>>

\* main.py:90: open(OUTPUT_CSV, 'w') raises; nothing catches it and the
\* process ends with a traceback and a non-zero exit status.
WriteToCsvFails ==
    /\ pc = "write"
    /\ pc' = "failed"
    /\ UNCHANGED <<config, generator, roots_done, all_files, futures, files_to_search, tasks, lock, results_dict, csv>>

Next ==
    \/ CollectRoot
    \/ SubmitFilters
    \/ \E i \in 1..Len(futures) : FilterStart(i)
    \/ \E i \in 1..Len(futures) : FilterDone(i)
    \/ AsCompletedEnter
    \/ \E i \in 1..Len(futures) : YieldFinished(i)
    \/ YieldCompleted
    \/ SubmitScans
    \/ \E i \in 1..Len(tasks) : ScanRead(i)
    \/ \E i \in 1..Len(tasks) : ScanAcquire(i)
    \/ \E i \in 1..Len(tasks) : ScanStore(i)
    \/ JoinScans
    \/ WriteToCsv
    \/ WriteToCsvFails

Spec == Init /\ [][Next]_vars

\* The steps of a run whose report file can be opened for writing.
FairNext ==
    \/ CollectRoot
    \/ SubmitFilters
    \/ \E i \in 1..Len(futures) : FilterStart(i)
    \/ \E i \in 1..Len(futures) : FilterDone(i)
    \/ AsCompletedEnter
    \/ \E i \in 1..Len(futures) : YieldFinished(i)
    \/ YieldCompleted
    \/ SubmitScans
    \/ \E i \in 1..Len(tasks) : ScanRead(i)
    \/ \E i \in 1..Len(tasks) : ScanAcquire(i)
    \/ \E i \in 1..Len(tasks) : ScanStore(i)
    \/ JoinScans
    \/ WriteToCsv

\* Such a run under a scheduler that does not stop the process while the
\* main thread or a worker thread can take a step.
FairSpec == Init /\ [][FairNext]_vars /\ WF_vars(FairNext)

(***************************************************************************)
(* Notions the properties below are stated with.                           *)
(***************************************************************************)
Range(seq) == {seq[i] : i \in 1..Len(seq)}

\* The keys of a dict.
Keys(d) == {d[i].key : i \in 1..Len(d)}

\* The scan phase is over: every scan task was joined.
Joined == pc \in {"write", "done", "failed"}

\* Every file the walks of the configured roots yield, repeats included.
Candidates == Flatten([k \in 1..Len(DIRECTORIES_TO_SEARCH) |->
                          collect_files(DIRECTORIES_TO_SEARCH[k])])

\* The rows a run must end with, whatever the pool size and the schedule:
\* one per candidate that passes the filter and whose scan found a match.
ExpectedStore ==
    {[key |-> str(p), value |-> local_results_of(p)] :
        p \in {q \in Range(Candidates) :
                  is_file_searchable(q).result /\ local_results_of(q) # <<>>}}

\* C1: once the scan phase is over, the result store holds exactly one row
\* per searchable file with a match, each with the whole match list its scan
\* produced, none lost and none twice; the rows do not depend on the pool
\* size (1 or more) nor on the interleaving of the workers.
C1_StoreIndependentOfSchedule ==
    Joined =>
        /\ Range(results_dict) = ExpectedStore
        /\ Len(results_dict) = Cardinality(Keys(results_dict))
        /\ Cardinality(Keys(results_dict)) = Cardinality(ExpectedStore)

\* C1 witness: a run with more than one worker has ended in which two
\* files with matches were stored in the opposite order of their submission.
C1_Witness ==
    /\ pc = "done"
    /\ NUM_THREADS > 1
    /\ \E i, j \in 1..Len(tasks) :
         /\ i < j
         /\ tasks[i].local_results # <<>>
         /\ tasks[j].local_results # <<>>
         /\ \E a, b \in 1..Len(results_dict) :
              /\ a < b
              /\ results_dict[a].key = str(tasks[j].path)
              /\ results_dict[b].key = str(tasks[i].path)

\* The scan tasks whose file has been read (main.py:66-79 is over).
Scanned == {i \in 1..Len(tasks) : tasks[i].state # "queued"}

\* Whether opening or reading the file fails during its scan.
ScanFails(file_path) == disk.files[file_path].scanErr # "none"

\* Whether term occurs in line at the 0-based offset p, as text and up to
\* letter case.
OccursAt(term, line, p) ==
    /\ p + Len(term) <= Len(line)
    /\ \A k \in 1..Len(term) : Lower(line[p + k]) = Lower(term[k])

\* C2: search_file records a match at every position at which the term
\* occurs case-insensitively in a line it read, overlapping occurrences
\* included ("aaa" scanned for "aa" gives starts 0 and 1).
C2_EveryOccurrenceRecorded ==
    \A i \in Scanned :
        LET lines == disk.files[tasks[i].path].lines
        IN \A n \in 1..lines_read(tasks[i].path) :
              \A p \in 0..Len(lines[n]) :
                  OccursAt(SEARCH_TERM, lines[n], p)
                      => <<n, p, p + Len(SEARCH_TERM)>> \in Range(tasks[i].local_results)

\* C3: a scan whose read fails, on open or after any number of lines,
\* contributes an empty match sequence: the file gets no entry in the
\* result store and no row in the report.
C3_FailedScanContributesNothing ==
    \A i \in Scanned :
        ScanFails(tasks[i].path) =>
            /\ tasks[i].local_results = <<>>
            /\ Joined => str(tasks[i].path) \notin Keys(results_dict)
            /\ \A r \in 1..Len(csv) : csv[r].path # str(tasks[i].path)

\* Whether a configured root cannot be enumerated.
RootUnreadable == \E k \in 1..Len(DIRECTORIES_TO_SEARCH) :
                      DIRECTORIES_TO_SEARCH[k] \notin DOMAIN disk.dirs

\* C4: when a configured root cannot be enumerated the run is aborted: it
\* never reaches the filter phase, the scan phase or the report.
C4_UnreadableRootIsFatal ==
    RootUnreadable => pc \in {"collect", "failed"} /\ csv = <<>>

\* Whether anything fails for the file in this run: its filter check, or
\* the opening or reading of its scan.
Fails(file_path) ==
    \/ disk.files[file_path].sniff # "ok"
    \/ disk.files[file_path].scanErr # "none"

\* C5: whatever files fail, the run goes on to the report (before the
\* report is written some step is always possible), and a failing file
\* contributes nothing to the store or the report.
C5_FailingFileContributesNothing ==
    /\ pc \in {"collect", "filter", "as_completed", "scan"} => ENABLED Next
    /\ \A p \in DOMAIN disk.files :
          Fails(p) => /\ str(p) \notin Keys(results_dict)
                      /\ \A r \in 1..Len(csv) : csv[r].path # str(p)

\* The filter tasks that have returned.
Filtered == {i \in 1..Len(futures) : futures[i].state = "done"}

\* C6: the result store never holds an entry with an empty match list;
\* storing an empty match sequence leaves the store as it was, so a
\* scanned file without a match has no row in the store or the report.
C6_NoEmptyEntry ==
    /\ \A r \in 1..Len(results_dict) : results_dict[r].value # <<>>
    /\ \A r \in 1..Len(csv) : csv[r].count > 0
    /\ \A i \in 1..Len(tasks) :
          (tasks[i].state = "done" /\ local_results_of(tasks[i].path) = <<>>)
              => /\ str(tasks[i].path) \notin Keys(results_dict)
                 /\ \A r \in 1..Len(csv) : csv[r].path # str(tasks[i].path)

\* C6 witness: the report was written with a row in it while a scanned
\* file without a match has none.
C6_Witness ==
    /\ pc = "done"
    /\ Len(csv) > 0
    /\ \E i \in 1..Len(tasks) :
         /\ tasks[i].state = "done"
         /\ tasks[i].local_results = <<>>
         /\ str(tasks[i].path) \notin Keys(results_dict)

\* path is dir or lies below it, component by component.
Under(path, dir) == \E k \in 0..Len(path) : SubSeq(path, 1, k) = dir

\* The text of dir starts the text of path although path is not under dir.
SharesTextOnly(path, dir) ==
    /\ ~Under(path, dir)
    /\ Len(str(dir)) <= Len(str(path))
    /\ SubSeq(str(path), 1, Len(str(dir))) = str(dir)

\* Whether the rules after the directory rule accept the file.
OtherRulesAccept(path) ==
    /\ INCLUDE_FILE_TYPES = <<>> \/ Contains(INCLUDE_FILE_TYPES, suffix(path))
    /\ ~Contains(EXCLUDE_FILE_TYPES, suffix(path))
    /\ disk.files[path].sniff = "ok"

\* C7: a path under an excluded directory is rejected by
\* is_file_searchable whatever its extension and content, is never in
\* files_to_search, never scanned and never in the store or the report; a
\* path under no excluded directory, even one whose text starts with an
\* excluded directory's text, is not rejected by the directory rule.
C7_ExcludedDirectory ==
    /\ \A i \in Filtered :
          IF \E dir \in EXCLUDE_DIRECTORIES : Under(futures[i].path, dir)
          THEN /\ ~futures[i].result
               /\ futures[i].path \notin Range(files_to_search)
               /\ \A t \in 1..Len(tasks) : tasks[t].path # futures[i].path
               /\ str(futures[i].path) \notin Keys(results_dict)
               /\ \A r \in 1..Len(csv) : csv[r].path # str(futures[i].path)
          ELSE OtherRulesAccept(futures[i].path) => futures[i].result

\* C7 witness: in one finished run a file under the excluded directory
\* was rejected and a file that only shares the directory's text was
\* accepted.
C7_Witness ==
    /\ pc = "done"
    /\ \E i, j \in Filtered : \E dir \in EXCLUDE_DIRECTORIES :
         /\ Under(futures[i].path, dir)
         /\ ~futures[i].result
         /\ SharesTextOnly(futures[j].path, dir)
         /\ futures[j].result

\* C8: a file whose extension is not in a non-empty include list is
\* rejected; a file whose extension is in the exclude list is rejected,
\* with an empty include list and with the extension in the include list
\* too; a file an extension rule rejects is never opened.
C8_ExtensionRules ==
    \A i \in Filtered :
        LET ext == suffix(futures[i].path)
        IN /\ (INCLUDE_FILE_TYPES # <<>> /\ ~Contains(INCLUDE_FILE_TYPES, ext))
                 => ~futures[i].result /\ ~futures[i].opened
           /\ Contains(EXCLUDE_FILE_TYPES, ext)
                 => ~futures[i].result /\ ~futures[i].opened

\* C8 witness: a file whose extension is in both lists was rejected
\* without being opened, in a run where another file was opened.
C8_Witness ==
    \E i, j \in Filtered :
        /\ Contains(INCLUDE_FILE_TYPES, suffix(futures[i].path))
        /\ Contains(EXCLUDE_FILE_TYPES, suffix(futures[i].path))
        /\ ~futures[i].result
        /\ ~futures[i].opened
        /\ futures[j].opened

\* The end-to-end scenario: one root holding only a.txt with the lines
\* "foo", "whatever bar" and "WHATEVER", the term "whatever", no exclusion
\* and no failure.
EndToEnd ==
    /\ disk.dirs = SingleDirs
    /\ disk.files[<<a_txt>>].lines = SingleLines[<<a_txt>>]
    /\ ~Fails(<<a_txt>>)
    /\ SEARCH_TERM = <<"w", "h", "a", "t", "e", "v", "e", "r">>
    /\ DIRECTORIES_TO_SEARCH = << <<>> >>
    /\ EXCLUDE_DIRECTORIES = {}
    /\ INCLUDE_FILE_TYPES = <<>>
    /\ EXCLUDE_FILE_TYPES = <<>>

\* C9 as stated: the end-to-end run's report is one row for a.txt with
\* count 2 and positions [(2,4,13),(3,0,9)].
C9_EndToEnd_AsStated ==
    (EndToEnd /\ pc = "done") =>
        csv = << [path |-> a_txt, count |-> 2,
                  positions |-> << <<2, 4, 13>>, <<3, 0, 9>> >>] >>

\* C9 amended: the end-to-end run's report is one row for a.txt with
\* count 2 and positions [(2,0,8),(3,0,8)]: "whatever" starts both lines
\* and is 8 characters long.
C9_EndToEnd ==
    (EndToEnd /\ pc = "done") =>
        csv = << [path |-> a_txt, count |-> 2,
                  positions |-> << <<2, 0, 8>>, <<3, 0, 8>> >>] >>

\* C9 witness: the end-to-end run has written its report.
C9_Witness == EndToEnd /\ pc = "done" /\ Len(csv) = 1

\* Whether the file holds a byte sequence that is invalid for UTF-8: in
\* the part the filter decodes, or further on, where only the scan meets it.
InvalidInPrefix(file_path) == disk.files[file_path].sniff = "decode"
InvalidBeyondPrefix(file_path) ==
    /\ disk.files[file_path].sniff = "ok"
    /\ disk.files[file_path].scanErr = "decode"

\* C10 as stated: a file with an invalid byte sequence anywhere is
\* rejected by the filter and never in the store or the report.
C10_Undecodable_AsStated ==
    \A i \in Filtered :
        (InvalidInPrefix(futures[i].path) \/ InvalidBeyondPrefix(futures[i].path))
            => /\ ~futures[i].result
               /\ futures[i].path \notin Range(files_to_search)
               /\ str(futures[i].path) \notin Keys(results_dict)
               /\ \A r \in 1..Len(csv) : csv[r].path # str(futures[i].path)

\* C10 amended: a file with an invalid byte sequence in the part the
\* filter decodes is rejected, never scanned and never in the store or
\* the report; is_file_searchable returns false on every decoding or I/O
\* error of its read; the run is not aborted by it.  (A file whose invalid
\* sequence lies further on passes the filter.)
C10_Undecodable ==
    /\ \A i \in Filtered :
          disk.files[futures[i].path].sniff # "ok"
              => /\ ~futures[i].result
                 /\ futures[i].path \notin Range(files_to_search)
                 /\ \A t \in 1..Len(tasks) : tasks[t].path # futures[i].path
                 /\ str(futures[i].path) \notin Keys(results_dict)
                 /\ \A r \in 1..Len(csv) : csv[r].path # str(futures[i].path)
    /\ \A i \in Filtered :
          InvalidBeyondPrefix(futures[i].path) /\ OtherRulesAccept(futures[i].path)
          /\ (\A dir \in EXCLUDE_DIRECTORIES : ~Under(futures[i].path, dir))
              => futures[i].result
    /\ pc \in {"collect", "filter", "as_completed", "scan"} => ENABLED Next

\* C10 witness: a run has written its report after the filter opened a
\* file, met an invalid byte sequence and rejected the file.
C10_Witness ==
    /\ pc = "done"
    /\ \E i \in Filtered :
         /\ InvalidInPrefix(futures[i].path)
         /\ futures[i].opened
         /\ ~futures[i].result

\* Whether the path lies under some excluded directory.
UnderExcluded(path) == \E dir \in EXCLUDE_DIRECTORIES : Under(path, dir)

\* C11: once the roots are walked, all_files holds every file below a
\* root that can be listed, except the files under an excluded directory,
\* and holds no file from a directory that is excluded or lies under an
\* excluded directory, a configured root of that kind included.
C11_WalkerPrunesExcluded ==
    pc # "collect" =>
        /\ \A i \in 1..Len(all_files) : ~UnderExcluded(all_files[i])
        /\ \A p \in DOMAIN disk.files :
              (/\ ~UnderExcluded(p)
               /\ \E k \in 1..Len(DIRECTORIES_TO_SEARCH) :
                     /\ DIRECTORIES_TO_SEARCH[k] \in DOMAIN disk.dirs
                     /\ Under(p, DIRECTORIES_TO_SEARCH[k]))
                  => p \in Range(all_files)

\* C12: no scan task starts while a filter task is unfinished, so that
\* filtering and scanning never overlap, and every file that is scanned has
\* a finished filter task whose decision is true.
C12_PhaseBarrier ==
    /\ Scanned # {} =>
          /\ \A j \in 1..Len(futures) : futures[j].state = "done"
          /\ finished = {}
          /\ pending = {}
    /\ (\E j \in 1..Len(futures) : futures[j].state = "running")
          => /\ tasks = <<>>
             /\ results_dict = <<>>
    /\ \A i \in Scanned :
          \E j \in 1..Len(futures) :
              /\ futures[j].path = tasks[i].path
              /\ futures[j].state = "done"
              /\ futures[j].result

\* C12 witness: a scan has read its file after a filter phase of several
\* tasks, one of which rejected its file.
C12_Witness ==
    /\ pc = "scan"
    /\ \E i \in 1..Len(tasks) : tasks[i].state = "read"
    /\ Len(futures) > Len(tasks)
    /\ Len(tasks) >= 2

\* C13: from the moment write_to_csv may start, every scan task has
\* finished and no worker holds the lock; from then on no step changes the
\* result store, and the report holds the rows of that final store.
C13_ReportAfterJoin ==
    /\ [](Joined => /\ \A i \in 1..Len(tasks) : tasks[i].state = "done"
                    /\ lock = {})
    /\ [][Joined => results_dict' = results_dict]_vars
    /\ [][csv' # csv => /\ \A i \in 1..Len(tasks) : tasks[i].state = "done"
                        /\ csv' = csv_rows(results_dict)]_vars

\* C13 witness: the report was written after a scan phase in which several
\* workers stored matches.
C13_Witness ==
    /\ pc = "done"
    /\ NUM_THREADS > 1
    /\ Len(results_dict) >= 2
    /\ Len(csv) = Len(results_dict)

\* C14: at most one scan worker holds the lock at any time; the result
\* store changes only in a step of the worker that holds the lock; a worker
\* takes the lock once per scanned file, after it has read the file, and
\* gives it back when it is done with the file, with or without matches
\* and whether or not the reading failed.
C14_StoreWritesUnderLock ==
    /\ [](/\ Cardinality(lock) <= 1
          /\ lock = {i \in 1..Len(tasks) : tasks[i].state = "locked"})
    /\ [][results_dict' # results_dict =>
             \E i \in lock : /\ tasks[i].state = "locked"
                             /\ tasks'[i].state = "done"
                             /\ lock' = {}]_vars
    /\ [][\A i \in 1..Len(tasks) :
             /\ Len(tasks') = Len(tasks)
             /\ (i \notin lock /\ i \in lock') =>
                    /\ tasks[i].state = "read"
                    /\ tasks[i].local_results = local_results_of(tasks[i].path)
             /\ (tasks[i].state # "done" /\ tasks'[i].state = "done") =>
                    /\ i \in lock
                    /\ i \notin lock'
             /\ tasks[i].state = "done" =>
                    /\ tasks'[i].state = "done"
                    /\ i \notin lock']_vars

\* C14 witness: a worker holds the lock while another worker, which has
\* read its file, waits for it, and a worker whose reading failed has
\* released the lock before.
C14_Witness ==
    \E i, j, k \in 1..Len(tasks) :
        /\ tasks[i].state = "locked"
        /\ tasks[j].state = "read"
        /\ tasks[k].state = "done"
        /\ ScanFails(tasks[k].path)

\* C15: every match record (line, start, end) a scan collects has
\* line >= 1, start >= 0, end = start + len(term) and end > start, and the
\* characters of that line from start up to end are the term up to letter
\* case.
C15_RecordIsOccurrence ==
    \A i \in Scanned :
        \A r \in Range(tasks[i].local_results) :
            /\ r[1] >= 1
            /\ r[1] <= Len(disk.files[tasks[i].path].lines)
            /\ r[2] >= 0
            /\ r[3] = r[2] + Len(SEARCH_TERM)
            /\ r[3] > r[2]
            /\ OccursAt(SEARCH_TERM, disk.files[tasks[i].path].lines[r[1]], r[2])

\* Whether the records are strictly ordered by line, then by start.
StrictlyOrdered(rs) ==
    \A a, b \in 1..Len(rs) :
        a < b => \/ rs[a][1] < rs[b][1]
                 \/ rs[a][1] = rs[b][1] /\ rs[a][2] < rs[b][2]

\* Whether the line number of every record is the 1-based position, among
\* all the lines of the file, of a line that was read and has a match at
\* the record's start, and every line read that has a match has records.
NumberedFromOne(rs, file_path) ==
    LET lines == disk.files[file_path].lines
    IN /\ \A r \in Range(rs) :
             /\ r[1] \in 1..lines_read(file_path)
             /\ r[2] >= 0
             /\ match_at(SEARCH_TERM, lines[r[1]], r[2])
       /\ \A n \in 1..lines_read(file_path) :
             (\E pos \in 0..Len(lines[n]) : match_at(SEARCH_TERM, lines[n], pos))
                 => \E r \in Range(rs) : r[1] = n

\* C16: the match list of a file, as collected by its scan and as stored,
\* is strictly ordered by line number and then by start offset in every
\* interleaving; the line numbers count every line read from 1, the
\* lines without a match and the empty lines included.
C16_RecordsOrdered ==
    /\ \A i \in Scanned :
          /\ StrictlyOrdered(tasks[i].local_results)
          /\ NumberedFromOne(tasks[i].local_results, tasks[i].path)
    /\ \A e \in Range(results_dict) :
          /\ StrictlyOrdered(e.value)
          /\ \E i \in Scanned :
                /\ str(tasks[i].path) = e.key
                /\ e.value = tasks[i].local_results

\* C16 witness: the stored list of a file whose second line is empty has
\* a record at line 1 and two records at line 3.
C16_Witness ==
    \E e \in Range(results_dict) :
        \E i \in Scanned :
            /\ str(tasks[i].path) = e.key
            /\ disk.files[tasks[i].path].lines[2] = <<>>
            /\ Len(e.value) = 3
            /\ e.value[1][1] = 1
            /\ e.value[2][1] = 3
            /\ e.value[3][1] = 3
            /\ e.value[2][2] < e.value[3][2]

\* C17: the report has one row per entry of the result store, in the
\* order of the store, which is the order in which the entries were first
\* inserted: a worker that stores a new path while it holds the lock puts
\* it last, and a path stored again keeps its place. The order of the rows
\* depends on the run, the set of the rows does not.
C17_ReportOrder ==
    /\ [][results_dict' # results_dict =>
             \E i \in lock :
                 LET key == str(tasks[i].path)
                 IN IF key \in Keys(results_dict)
                    THEN /\ Len(results_dict') = Len(results_dict)
                         /\ \A n \in 1..Len(results_dict) :
                               results_dict'[n].key = results_dict[n].key
                    ELSE results_dict' = Append(results_dict,
                             [key |-> key, value |-> tasks[i].local_results])]_vars
    /\ [](pc = "done" =>
             /\ Len(csv) = Len(results_dict)
             /\ \A n \in 1..Len(csv) :
                   /\ csv[n].path = results_dict[n].key
                   /\ csv[n].positions = results_dict[n].value
                   /\ csv[n].count = Len(results_dict[n].value)
             /\ {[key |-> row.path, value |-> row.positions] : row \in Range(csv)}
                   = ExpectedStore
             /\ Len(csv) = Cardinality(ExpectedStore))

\* C17 witness: a report was written in which the row of a file comes
\* before the row of a file that was submitted for scanning earlier.
C17_Witness ==
    /\ pc = "done"
    /\ \E a, b \in 1..Len(csv) :
         /\ a < b
         /\ \E i, j \in 1..Len(tasks) :
              /\ i < j
              /\ csv[a].path = str(tasks[j].path)
              /\ csv[b].path = str(tasks[i].path)
              /\ csv[a].path # csv[b].path

\* How many times x occurs in the sequence.
Count(seq, x) == Cardinality({i \in 1..Len(seq) : seq[i] = x})

\* Whether the walk of root yields the file: the root can be listed, the
\* file is below it, and no directory between the root and the file, the
\* root itself left out, is an excluded directory.
YieldedFrom(path, root) ==
    /\ root \in DOMAIN disk.dirs
    /\ Under(path, root)
    /\ ~\E dir \in EXCLUDE_DIRECTORIES :
           /\ dir # root
           /\ Under(dir, root)
           /\ Under(path, dir)

\* The configured roots, by position, whose walk yields the file.
RootsYielding(path) ==
    {k \in 1..Len(DIRECTORIES_TO_SEARCH) : YieldedFrom(path, DIRECTORIES_TO_SEARCH[k])}

\* C18: a file that several configured roots reach is collected and
\* filtered once per such root, and scanned once per root when the filter
\* accepts it; in every state the result store has at most one entry per
\* path, and an entry is the match list of one scan of its file, never two
\* lists joined or mixed.
C18_OverlappingRoots ==
    /\ pc # "collect" =>
          \A p \in DOMAIN disk.files :
              LET roots == Cardinality(RootsYielding(p))
              IN /\ Count(all_files, p) = roots
                 /\ Cardinality({j \in 1..Len(futures) : futures[j].path = p}) = roots
                 /\ pc \notin {"filter", "as_completed"} =>
                       Cardinality({i \in 1..Len(tasks) : tasks[i].path = p})
                           = IF \E j \in 1..Len(futures) :
                                   futures[j].path = p /\ futures[j].result
                             THEN roots
                             ELSE 0
    /\ Len(results_dict) = Cardinality(Keys(results_dict))
    /\ \A e \in Range(results_dict) :
          \E i \in 1..Len(tasks) :
              /\ tasks[i].state = "done"
              /\ str(tasks[i].path) = e.key
              /\ e.value = tasks[i].local_results

\* C18 witness: a run has ended in which a file with matches was scanned
\* twice, once per root, and the store has one entry for it.
C18_Witness ==
    /\ pc = "done"
    /\ \E i, j \in 1..Len(tasks) :
         /\ i < j
         /\ tasks[i].path = tasks[j].path
         /\ tasks[i].local_results # <<>>
         /\ Cardinality({n \in 1..Len(results_dict) :
                            results_dict[n].key = str(tasks[i].path)}) = 1
         /\ Len(results_dict) >= 2

\* The run is over: every task of both pools has finished, no worker
\* holds the lock and the report is written.
Completed ==
    /\ pc = "done"
    /\ \A j \in 1..Len(futures) : futures[j].state = "done"
    /\ \A i \in 1..Len(tasks) : tasks[i].state = "done"
    /\ Len(futures) = Len(all_files)
    /\ lock = {}
    /\ Len(csv) = Len(results_dict)

\* C19: whatever the files, the pool size and the files that fail, a run
\* whose threads keep being scheduled completes: every filter task and
\* every scan task finishes, a lock that is held is freed, and the report
\* is written; before that some thread can always take a step, so no
\* state is reached in which the threads wait for each other.
C19_RunCompletes ==
    /\ <>Completed
    /\ (lock # {}) ~> (lock = {})
    /\ [](~Completed => ENABLED <<FairNext>>_vars)

\* C19 witness: a run with a single worker, several scan tasks and a file
\* whose reading failed has completed.
C19_Witness ==
    /\ Completed
    /\ NUM_THREADS = 1
    /\ Len(tasks) >= 2
    /\ \E i \in 1..Len(tasks) : ScanFails(tasks[i].path)

\* How far a filter task or a scan task has got.
Stage(state) ==
    CASE state = "queued"  -> 0
      [] state = "running" -> 1
      [] state = "read"    -> 1
      [] state = "locked"  -> 2
      [] state = "done"    -> 3

\* The filter tasks whose future the loop of main.py:134 has taken.
Yielded ==
    IF pc \in {"collect", "filter"} THEN {}
    ELSE (1..Len(futures)) \ (finished \cup pending)

\* C20: every collected occurrence of a file gets one filter task, which
\* runs once and whose future the main loop takes once; files_to_search
\* holds the occurrences whose filter returned true and nothing else; each
\* of them gets one scan task, which runs once; no task is queued again or
\* goes back, whether its file failed or not.
C20_EachOccurrenceOnce ==
    /\ [](pc # "collect" =>
             /\ Len(futures) = Len(all_files)
             /\ \A j \in 1..Len(futures) : futures[j].path = all_files[j])
    /\ [](/\ \A j \in 1..Len(futures) :
                futures[j].state = "done" =>
                    futures[j].result = is_file_searchable(futures[j].path).result
          /\ \A j \in Yielded : futures[j].state = "done"
          /\ \A p \in DOMAIN disk.files :
                Count(files_to_search, p)
                    = Cardinality({j \in Yielded :
                                      /\ futures[j].path = p
                                      /\ futures[j].result})
          /\ Range(files_to_search) \subseteq DOMAIN disk.files)
    /\ [](pc \notin {"collect", "filter", "as_completed"} =>
             /\ Yielded = 1..Len(futures)
             /\ Len(tasks) = Len(files_to_search)
             /\ \A i \in 1..Len(tasks) : tasks[i].path = files_to_search[i])
    /\ [][/\ pc # "collect" =>
               /\ Len(futures') = Len(futures)
               /\ all_files' = all_files
               /\ \A j \in 1..Len(futures) :
                     /\ futures'[j].path = futures[j].path
                     /\ Stage(futures'[j].state) >= Stage(futures[j].state)
          /\ Yielded \subseteq Yielded'
          /\ Cardinality(Yielded') <= Cardinality(Yielded) + 1
          /\ Yielded' = Yielded => files_to_search' = files_to_search
          /\ pc \notin {"collect", "filter", "as_completed"} =>
               /\ Len(tasks') = Len(tasks)
               /\ files_to_search' = files_to_search
               /\ futures' = futures
               /\ \A i \in 1..Len(tasks) :
                     /\ tasks'[i].path = tasks[i].path
                     /\ Stage(tasks'[i].state) >= Stage(tasks[i].state)
                     /\ Stage(tasks'[i].state) <= Stage(tasks[i].state) + 1]_vars

\* C20 witness: a run has ended in which the filter could not read one
\* file, which was not scanned, and several other files were scanned.
C20_Witness ==
    /\ pc = "done"
    /\ Len(tasks) >= 2
    /\ \E j \in 1..Len(futures) :
         /\ disk.files[futures[j].path].sniff # "ok"
         /\ ~futures[j].result
         /\ \A i \in 1..Len(tasks) : tasks[i].path # futures[j].path

====
